---- MODULE Spec2Model ----
(***************************************************************************)
(* Data-access hooks of the clinic dashboard: useProfessionals (CRUD on    *)
(* the professionals table), useTodayAppointments and useStats.            *)
(*                                                                         *)
(* Every hook reads { user, loading: authLoading } from the auth context   *)
(* and talks to the remote store through a query builder.  An async        *)
(* function runs without interruption up to its first `await`; the part   *)
(* after an `await` runs when the store answers.  One action of the model  *)
(* is one such uninterrupted piece of code.                                *)
(*                                                                         *)
(* Conventions                                                             *)
(*   - user is a user id or NULL; ids of rows are positive integers;       *)
(*   - a timestamp column holds seconds since the epoch; the text of an    *)
(*     ISO timestamp is the tuple <<day, h, m, s>> and the text of an ISO   *)
(*     date the tuple <<day>>, day counting the days since the epoch;       *)
(*   - the clock and the local time zone are UTC, and the clock stays in   *)
(*     the first month of the epoch;                                       *)
(*   - sent, ret, toasts and invoked describe the step just taken: the     *)
(*     queries it sent, the value an operation returned to its caller in   *)
(*     it, the notifications it raised and the operations it invoked.      *)
(***************************************************************************)
EXTENDS Integers, Sequences, FiniteSets, Bags, TLC

VARIABLES
    user,          \* useAuth().user: a user id, or NULL
    authLoading,   \* useAuth().loading
    now,           \* the clock, seconds since the epoch
    db,            \* the remote store: one set of rows per table, and the id generator
    calls,         \* the operations suspended at an await: a bag, for the store may
                   \* answer them in any order
    profLoading,   \* useProfessionals: loading
    appointments,  \* useTodayAppointments: appointments
    apptLoading,   \* useTodayAppointments: loading
    stats,         \* useStats: stats
    statsLoading,  \* useStats: loading
    sent,          \* queries sent to the store by the last step
    ret,           \* what the operation that ended in the last step returned
    toasts,        \* notifications raised by the last step
    invoked,       \* operations invoked in the last step
    page           \* the page: the hooks it uses and the accounts that sign in on it

vars == <<user, authLoading, now, db, calls, profLoading, appointments, apptLoading,
          stats, statsLoading, sent, ret, toasts, invoked, page>>

----------------------------------------------------------------------------
(* Bounds of the model *)

\* operations of useProfessionals that may be suspended at an await at the same time
MaxInFlight == 2
\* runs of loadTodayAppointments, and of loadStats, that may be suspended at the same time
MaxPending == 1
\* rows the professionals table may ever have held (bounds the id generator)
MaxProfId == 3
\* additional appointments of today in a store of the statistics runs
MaxExtra == 13

NULL == "null"
Users == {"u1", "u2"}
\* user ids in the order of the rows the store starts with
UserSeq == <<"u1", "u2">>
\* the names of professionals, in alphabetical order
Names == <<"Ana", "Bia", "Caio">>
\* the name a caller passes to create and update
NewNames == {"Caio"}

SecondsPerDay == 24 * 60 * 60

----------------------------------------------------------------------------
(* Dates: Date.toISOString, String.split, string concatenation, and the     *)
(* store's reading of a timestamp literal                                   *)

ToISOString(t) ==
    <<t \div SecondsPerDay, (t % SecondsPerDay) \div 3600, (t % 3600) \div 60, t % 60>>

\* iso.split('T')[0]
DatePart(iso) == <<iso[1]>>

\* a variant that ends the day at the next midnight
EndOfDayTextMidnight(hoje) == hoje \o <<24, 0, 0>>

\* hoje + 'T23:59:59'
EndOfDayText(hoje) == hoje \o <<23, 59, 59>>

\* the store reads 'YYYY-MM-DD' as midnight of that day
ParseTimestamp(text) ==
    IF Len(text) = 1
    THEN text[1] * SecondsPerDay
    ELSE text[1] * SecondsPerDay + text[2] * 3600 + text[3] * 60 + text[4]

\* const d = new Date(); d.setDate(1); the clock is in the first month of the epoch
SetDate1(t) == t % SecondsPerDay

\* toLocaleTimeString('pt-BR', { hour: '2-digit', minute: '2-digit' })
ToLocaleTimeString(t) == <<(t % SecondsPerDay) \div 3600, (t % 3600) \div 60>>

----------------------------------------------------------------------------
(* The remote store *)

\* a column that is null holds the empty string
Null == ""

Day(d, h, m, sec) == d * SecondsPerDay + h * 3600 + m * 60 + sec

Appointment(i, u, t, pat, prof, tipo, st) ==
    [id |-> i, user_id |-> u, data_agendamento |-> t, patient_id |-> pat,
     professional_id |-> prof, tipo |-> tipo, status |-> st]

\* appointments around the two ends of day 1, of both users
BaseAppointments ==
    { Appointment(1, "u1", Day(0, 23, 59, 59), 1, 1, "Retorno", "pendente"),
      Appointment(2, "u1", Day(1, 0, 0, 0), 1, 1, Null, Null),
      Appointment(3, "u1", Day(1, 23, 59, 58), 9, 9, "Exame", "confirmado"),
      Appointment(4, "u1", Day(1, 23, 59, 59), 1, 1, Null, Null),
      Appointment(5, "u1", Day(2, 0, 0, 0), 1, 1, Null, Null),
      Appointment(6, "u2", Day(1, 0, 0, 0), 2, 2, Null, Null),
      Appointment(7, "u2", Day(1, 23, 59, 59), 2, 2, Null, Null) }

\* k more appointments of u1 at noon of day 1
ExtraAppointments(k) ==
    { Appointment(100 + i, "u1", Day(1, 12, 0, 0), 1, 1, Null, Null) : i \in 1..k }

InitialStore(k) ==
    [professionals |-> { [id |-> i, user_id |-> UserSeq[i], nome |-> Names[i]] : i \in 1..2 },
     patients      |-> { [id |-> 1, user_id |-> "u1", nome |-> "Rui"],
                         [id |-> 2, user_id |-> "u2", nome |-> "Lia"],
                         [id |-> 3, user_id |-> "u1", nome |-> Null] },
     appointments  |-> BaseAppointments \cup ExtraAppointments(k),
     consultations |-> { [id |-> 1, user_id |-> "u1", created_at |-> Day(0, 0, 0, 0)],
                         [id |-> 2, user_id |-> "u1", created_at |-> Day(1, 8, 0, 0)],
                         [id |-> 3, user_id |-> "u2", created_at |-> Day(1, 9, 0, 0)] },
     nextId        |-> 3]

Filter(op, col, val) == [op |-> op, col |-> col, val |-> val]

\* .eq / .gte / .lt of the query builder, as the store evaluates them on a row
Matches(row, filters) ==
    \A k \in 1..Len(filters) :
        LET f == filters[k] IN
        CASE f.op = "eq"  -> row[f.col] = f.val
          [] f.op = "gte" -> row[f.col] >= ParseTimestamp(f.val)
          [] f.op = "lt"  -> row[f.col] < ParseTimestamp(f.val)

Selected(q, d) == { r \in d[q.table] : Matches(r, q.filters) }

NameRank(n) == IF \E i \in 1..Len(Names) : Names[i] = n
               THEN CHOOSE i \in 1..Len(Names) : Names[i] = n
               ELSE 0

OrderKey(row, col) == IF col = "nome" THEN NameRank(row.nome) ELSE row[col]

Before(r, s, col) ==
    \/ OrderKey(r, col) < OrderKey(s, col)
    \/ OrderKey(r, col) = OrderKey(s, col) /\ r.id <= s.id

\* .order(col, { ascending: true }); rows of equal key come in id order: the k-th row
\* is the one with k rows at or before it
Ordered(rows, col) ==
    [k \in 1..Cardinality(rows) |->
        CHOOSE r \in rows : Cardinality({ s \in rows : Before(s, r, col) }) = k]

RECURSIVE Assign(_, _)
\* a row with the values of an insert or update written into it, in order
Assign(row, values) ==
    IF values = <<>> THEN row
    ELSE Assign([row EXCEPT ![Head(values).col] = Head(values).val], Tail(values))

NameOf(rows, i) ==
    IF \E r \in rows : r.id = i THEN (CHOOSE r \in rows : r.id = i).nome ELSE Null

\* select('*, patient:patients(nome), professional:professionals(nome)')
Embed(row, d) ==
    [id |-> row.id, user_id |-> row.user_id, data_agendamento |-> row.data_agendamento,
     tipo |-> row.tipo, status |-> row.status,
     patient |-> NameOf(d.patients, row.patient_id),
     professional |-> NameOf(d.professionals, row.professional_id)]

InsertedRow(q, d) ==
    Assign([id |-> d.nextId, user_id |-> NULL, nome |-> Null], q.values)

\* the store after it has executed q; a query the store refuses changes nothing
StoreAfter(q, d, outcome) ==
    IF outcome # "ok" THEN d
    ELSE CASE q.verb = "insert" ->
                [d EXCEPT !.professionals = @ \cup {InsertedRow(q, d)}, !.nextId = @ + 1]
           [] q.verb = "update" ->
                [d EXCEPT ![q.table] =
                    { IF Matches(r, q.filters) THEN Assign(r, q.values) ELSE r : r \in @ }]
           [] q.verb = "delete" ->
                [d EXCEPT ![q.table] = { r \in @ : ~Matches(r, q.filters) }]
           [] OTHER -> d

Answer(data, error, count) == [data |-> data, error |-> error, count |-> count]

\* the rows a query returns before .single() is applied
Returned(q, d) ==
    CASE q.verb = "insert" -> <<InsertedRow(q, d)>>
      [] q.verb = "update" -> Ordered({ Assign(r, q.values) : r \in Selected(q, d) }, "id")
      [] q.verb = "delete" -> <<>>
      [] q.verb = "count"  -> <<>>
      [] q.verb = "select" ->
            IF q.table = "appointments"
            THEN Ordered({ Embed(r, d) : r \in Selected(q, d) }, q.order)
            ELSE Ordered(Selected(q, d), q.order)

\* { data, error, count } as the store answers q; count is <<n>>, or <<>> for null
StoreAnswer(q, d, outcome) ==
    IF outcome # "ok" THEN Answer(<<>>, TRUE, <<>>)
    ELSE IF q.verb = "count" THEN Answer(<<>>, FALSE, <<Cardinality(Selected(q, d))>>)
    ELSE IF q.single /\ Len(Returned(q, d)) # 1 THEN Answer(<<>>, TRUE, <<>>)
    ELSE Answer(Returned(q, d), FALSE, <<>>)

Query(table, verb, values, filters, order, single) ==
    [table |-> table, verb |-> verb, values |-> values, filters |-> filters,
     order |-> order, single |-> single]

----------------------------------------------------------------------------
(* What a step reports *)

NoRet == [op |-> "none", uid |-> NULL, id |-> 0, kind |-> "none", data |-> <<>>]

\* the end of an operation called by user uid with argument id.  kind is what it
\* returned: "rows" (the sequence data), "row" (the one record of data), "null", "true",
\* "false"; for a refresh, which returns nothing, "void" when it ended through its try
\* block and "caught" when it ended through its catch block.  For loadStats data holds
\* the counts it received.
Ret(op, uid, id, kind, data) == [op |-> op, uid |-> uid, id |-> id, kind |-> kind, data |-> data]

Toast(title, variant) == [title |-> title, variant |-> variant]

\* an operation suspended at an await: the closure's user id, its arguments, the query
\* it awaits and the counts it has received so far
Call(op, uid, id, nome, q, acc) ==
    [op |-> op, uid |-> uid, id |-> id, nome |-> nome, query |-> q, acc |-> acc]

\* the bag of the calls of a sequence
RECURSIVE BagOf(_)
BagOf(cs) == IF cs = <<>> THEN EmptyBag ELSE SetToBag({Head(cs)}) (+) BagOf(Tail(cs))

Without(bag, c) == bag (-) SetToBag({c})

ProfOps ==
    {"getProfessionals", "getProfessionalById", "createProfessional",
     "updateProfessional", "deleteProfessional"}

\* how many operations among ops are suspended
Pending(ops) ==
    BagCardinality([ c \in { x \in BagToSet(calls) : x.op \in ops } |-> calls[c] ])

----------------------------------------------------------------------------
(* useProfessionals *)

\* from('professionals').select('*').eq('user_id', user.id).order('nome')
GetProfessionalsQuery(uid) ==
    Query("professionals", "select", <<>>, <<Filter("eq", "user_id", uid)>>, "nome", FALSE)

\* from('professionals').select('*').eq('id', id).eq('user_id', user.id).single()
GetProfessionalByIdQuery(uid, id) ==
    Query("professionals", "select", <<>>,
          <<Filter("eq", "id", id), Filter("eq", "user_id", uid)>>, "id", TRUE)

\* from('professionals').insert([{ ...professionalData, user_id: user.id }]).select().single()
CreateProfessionalQuery(uid, nome) ==
    Query("professionals", "insert",
          <<[col |-> "nome", val |-> nome], [col |-> "user_id", val |-> uid]>>,
          <<>>, "id", TRUE)

\* from('professionals').update(professionalData).eq('id', id).eq('user_id', user.id)
\*   .select().single()
UpdateProfessionalQuery(uid, id, nome) ==
    Query("professionals", "update", <<[col |-> "nome", val |-> nome]>>,
          <<Filter("eq", "id", id), Filter("eq", "user_id", uid)>>, "id", TRUE)

\* a variant that deletes by id alone
DeleteProfessionalQueryById(uid, id) ==
    Query("professionals", "delete", <<>>, <<Filter("eq", "id", id)>>, "id", FALSE)

\* from('professionals').delete().eq('id', id).eq('user_id', user.id)
DeleteProfessionalQuery(uid, id) ==
    Query("professionals", "delete", <<>>,
          <<Filter("eq", "id", id), Filter("eq", "user_id", uid)>>, "id", FALSE)

\* getProfessionals: if (authLoading) return []; if (!user) return [];
GetProfessionalsReturnsEarly == authLoading \/ user = NULL

\* a variant that refuses only once the auth context has resolved
NotAuthenticatedOnceResolved == ~authLoading /\ user = NULL

\* getProfessionalById, createProfessional, updateProfessional, deleteProfessional:
\* if (!user) throw new Error('Usuário não autenticado')
NotAuthenticated == user = NULL

\* what getProfessionals returns when it returns early
EarlyProfessionals == Ret("getProfessionals", user, 0, "rows", <<>>)

\* an operation that ends before its first await: setLoading(true) ... finally
\* setLoading(false)
EndsAtOnce(r, ts) ==
    /\ profLoading' = FALSE
    /\ ret' = r
    /\ toasts' = ts
    /\ sent' = <<>>
    /\ UNCHANGED <<calls, db>>

\* an operation that reaches its await: setLoading(true), the query leaves
Awaits(c) ==
    /\ Pending(ProfOps) < MaxInFlight
    /\ profLoading' = TRUE
    /\ calls' = calls (+) BagOf(<<c>>)
    /\ sent' = <<c.query>>
    /\ ret' = NoRet
    /\ toasts' = <<>>
    /\ UNCHANGED db

ProfFrame ==
    /\ "useProfessionals" \in page.hooks
    /\ UNCHANGED <<user, authLoading, now, appointments, apptLoading, stats, statsLoading,
                   page>>

getProfessionals ==
    /\ invoked' = {"getProfessionals"}
    /\ IF GetProfessionalsReturnsEarly
       THEN EndsAtOnce(EarlyProfessionals, <<>>)
       ELSE Awaits(Call("getProfessionals", user, 0, Null, GetProfessionalsQuery(user), <<>>))
    /\ ProfFrame

getProfessionalById(id) ==
    /\ invoked' = {"getProfessionalById"}
    /\ IF NotAuthenticated
       THEN EndsAtOnce(Ret("getProfessionalById", user, id, "null", <<>>),
                       <<Toast("Erro ao carregar profissional", "destructive")>>)
       ELSE Awaits(Call("getProfessionalById", user, id, Null,
                        GetProfessionalByIdQuery(user, id), <<>>))
    /\ ProfFrame

createProfessional(nome) ==
    /\ invoked' = {"createProfessional"}
    /\ IF NotAuthenticated
       THEN EndsAtOnce(Ret("createProfessional", user, 0, "null", <<>>),
                       <<Toast("Erro ao cadastrar profissional", "destructive")>>)
       ELSE /\ db.nextId + Pending({"createProfessional"}) <= MaxProfId
            /\ Awaits(Call("createProfessional", user, 0, nome,
                           CreateProfessionalQuery(user, nome), <<>>))
    /\ ProfFrame

updateProfessional(id, nome) ==
    /\ invoked' = {"updateProfessional"}
    /\ IF NotAuthenticated
       THEN EndsAtOnce(Ret("updateProfessional", user, id, "null", <<>>),
                       <<Toast("Erro ao atualizar profissional", "destructive")>>)
       ELSE Awaits(Call("updateProfessional", user, id, nome,
                        UpdateProfessionalQuery(user, id, nome), <<>>))
    /\ ProfFrame

deleteProfessional(id) ==
    /\ invoked' = {"deleteProfessional"}
    /\ IF NotAuthenticated
       THEN EndsAtOnce(Ret("deleteProfessional", user, id, "false", <<>>),
                       <<Toast("Erro ao remover profissional", "destructive")>>)
       ELSE Awaits(Call("deleteProfessional", user, id, Null,
                        DeleteProfessionalQuery(user, id), <<>>))
    /\ ProfFrame

\* the store executes the query call c awaits and the operation runs to its end:
\* r and ts are what it returns and raises; finally setLoading(false)
ProfResumes(c, outcome, r, ts) ==
    /\ db' = StoreAfter(c.query, db, outcome)
    /\ calls' = Without(calls, c)
    /\ profLoading' = FALSE
    /\ ret' = r
    /\ toasts' = ts
    /\ sent' = <<>>
    /\ invoked' = {}
    /\ ProfFrame

\* getProfessionals after the await: if (error) throw error; return data || []
\* catch: if (user) toast(...); return []
getProfessionalsResumes(c, outcome) ==
    /\ c.op = "getProfessionals"
    /\ LET a == StoreAnswer(c.query, db, outcome) IN
       IF a.error
       THEN ProfResumes(c, outcome, Ret("getProfessionals", c.uid, c.id, "rows", <<>>),
                        IF c.uid # NULL
                        THEN <<Toast("Erro ao carregar profissionais", "destructive")>>
                        ELSE <<>>)
       ELSE ProfResumes(c, outcome, Ret("getProfessionals", c.uid, c.id, "rows", a.data), <<>>)

getProfessionalByIdResumes(c, outcome) ==
    /\ c.op = "getProfessionalById"
    /\ LET a == StoreAnswer(c.query, db, outcome) IN
       IF a.error
       THEN ProfResumes(c, outcome, Ret("getProfessionalById", c.uid, c.id, "null", <<>>),
                        <<Toast("Erro ao carregar profissional", "destructive")>>)
       ELSE ProfResumes(c, outcome, Ret("getProfessionalById", c.uid, c.id, "row", a.data), <<>>)

createProfessionalResumes(c, outcome) ==
    /\ c.op = "createProfessional"
    /\ LET a == StoreAnswer(c.query, db, outcome) IN
       IF a.error
       THEN ProfResumes(c, outcome, Ret("createProfessional", c.uid, c.id, "null", <<>>),
                        <<Toast("Erro ao cadastrar profissional", "destructive")>>)
       ELSE ProfResumes(c, outcome, Ret("createProfessional", c.uid, c.id, "row", a.data),
                        <<Toast("Profissional cadastrado com sucesso!", "default")>>)

updateProfessionalResumes(c, outcome) ==
    /\ c.op = "updateProfessional"
    /\ LET a == StoreAnswer(c.query, db, outcome) IN
       IF a.error
       THEN ProfResumes(c, outcome, Ret("updateProfessional", c.uid, c.id, "null", <<>>),
                        <<Toast("Erro ao atualizar profissional", "destructive")>>)
       ELSE ProfResumes(c, outcome, Ret("updateProfessional", c.uid, c.id, "row", a.data),
                        <<Toast("Profissional atualizado com sucesso!", "default")>>)

deleteProfessionalResumes(c, outcome) ==
    /\ c.op = "deleteProfessional"
    /\ LET a == StoreAnswer(c.query, db, outcome) IN
       IF a.error
       THEN ProfResumes(c, outcome, Ret("deleteProfessional", c.uid, c.id, "false", <<>>),
                        <<Toast("Erro ao remover profissional", "destructive")>>)
       ELSE ProfResumes(c, outcome, Ret("deleteProfessional", c.uid, c.id, "true", <<>>),
                        <<Toast("Profissional removido com sucesso", "default")>>)

----------------------------------------------------------------------------
(* useTodayAppointments *)

\* const hoje = new Date().toISOString().split('T')[0]
Hoje(t) == DatePart(ToISOString(t))

\* .eq('user_id', user.id).gte('data_agendamento', hoje)
\*   .lt('data_agendamento', hoje + 'T23:59:59')
TodayWindow(uid, t) ==
    <<Filter("eq", "user_id", uid),
      Filter("gte", "data_agendamento", Hoje(t)),
      Filter("lt", "data_agendamento", EndOfDayText(Hoje(t)))>>

TodayAppointmentsQuery(uid, t) ==
    Query("appointments", "select", <<>>, TodayWindow(uid, t), "data_agendamento", FALSE)

\* a || b on strings
OrElse(a, b) == IF a = Null THEN b ELSE a

\* data?.map(apt => ({ id, time, patient, doctor, type, status }))
FormatAppointment(apt) ==
    [id      |-> apt.id,
     time    |-> ToLocaleTimeString(apt.data_agendamento),
     patient |-> OrElse(apt.patient, "Paciente não encontrado"),
     doctor  |-> OrElse(apt.professional, "Profissional não encontrado"),
     type    |-> OrElse(apt.tipo, "Consulta"),
     status  |-> OrElse(apt.status, "confirmado")]

FormattedAppointments(data) == [k \in 1..Len(data) |-> FormatAppointment(data[k])]

\* loadTodayAppointments: if (!user || authLoading) return
LoadTodaySkips(u, l) == u = NULL \/ l

\* the calls loadTodayAppointments() suspends when the hook sees user u and authLoading l
TodayStarted(u, l) ==
    IF LoadTodaySkips(u, l) THEN <<>>
    ELSE <<Call("loadTodayAppointments", u, 0, Null, TodayAppointmentsQuery(u, now), <<>>)>>

\* a variant that loads while the auth context is still loading
TodayEffectLoadsWhileLoading(u, l) == u # NULL /\ l

\* useEffect: if (user && !authLoading) loadTodayAppointments()
TodayEffectLoads(u, l) == u # NULL /\ ~l

\* useEffect: else if (!authLoading && !user) { setLoading(false); setAppointments([]) }
TodayEffectResets(u, l) == ~l /\ u = NULL

TodayEffectStarted(u, l) == IF TodayEffectLoads(u, l) THEN TodayStarted(u, l) ELSE <<>>

Queries(cs) == [k \in 1..Len(cs) |-> cs[k].query]

\* refreshAppointments(), called by the component
loadTodayAppointments ==
    LET started == TodayStarted(user, authLoading) IN
    /\ "useTodayAppointments" \in page.hooks
    /\ Pending({"loadTodayAppointments"}) + Len(started) <= MaxPending
    /\ invoked' = {"loadTodayAppointments"}
    /\ calls' = calls (+) BagOf(started)
    /\ sent' = Queries(started)
    /\ apptLoading' = IF started = <<>> THEN apptLoading ELSE TRUE
    /\ ret' = IF started = <<>> THEN Ret("loadTodayAppointments", user, 0, "void", <<>>)
               ELSE NoRet
    /\ toasts' = <<>>
    /\ UNCHANGED <<user, authLoading, now, db, profLoading, appointments, stats, statsLoading,
                   page>>

\* after the await: if (error) throw error; setAppointments(formatted)
\* catch: setAppointments([]); finally: setLoading(false)
AppointmentsAfter(a) == IF a.error THEN <<>> ELSE FormattedAppointments(a.data)

loadTodayAppointmentsResumes(c, outcome) ==
    /\ c.op = "loadTodayAppointments"
    /\ calls' = Without(calls, c)
    /\ sent' = <<>>
    /\ toasts' = <<>>
    /\ invoked' = {}
    /\ UNCHANGED <<user, authLoading, now, db, profLoading, stats, statsLoading, page>>
    /\ \E a \in {StoreAnswer(c.query, db, outcome)} :
          /\ appointments' = AppointmentsAfter(a)
          /\ ret' = Ret("loadTodayAppointments", c.uid, 0,
                        IF a.error THEN "caught" ELSE "void", <<>>)
    /\ apptLoading' = FALSE

----------------------------------------------------------------------------
(* useStats *)

\* from('patients').select('*', { count: 'exact', head: true }).eq('user_id', user.id)
PatientsCountQuery(uid) ==
    Query("patients", "count", <<>>, <<Filter("eq", "user_id", uid)>>, "id", FALSE)

\* from('appointments').select('*', { count: 'exact', head: true }).eq('user_id', user.id)
\*   .gte('data_agendamento', hoje).lt('data_agendamento', hoje + 'T23:59:59')
AppointmentsCountQuery(uid, t) ==
    Query("appointments", "count", <<>>, TodayWindow(uid, t), "id", FALSE)

\* from('consultations').select('*', { count: 'exact', head: true }).eq('user_id', user.id)
\*   .gte('created_at', inicioMes.toISOString())
ConsultationsCountQuery(uid, t) ==
    Query("consultations", "count", <<>>,
          <<Filter("eq", "user_id", uid),
            Filter("gte", "created_at", ToISOString(SetDate1(t)))>>, "id", FALSE)

\* count || 0
OrZero(count) == IF count = <<>> THEN 0 ELSE count[1]

\* Math.round(num / den) for num >= 0 and den > 0
MathRound(num, den) == (2 * num + den) \div (2 * den)

\* a variant that does not clamp
MathMinFirst(a, b) == a

\* Math.min(a, b)
MathMin(a, b) == IF a <= b THEN a ELSE b

\* agendamentosCount ? Math.round((agendamentosCount / 10) * 100) : 0
TaxaOcupacao(count) ==
    IF OrZero(count) = 0 THEN 0 ELSE MathRound(count[1] * 100, 10)

\* the argument of setStats
DashboardStats(pacientesCount, agendamentosCount, consultasCount) ==
    [pacientesCadastrados |-> OrZero(pacientesCount),
     agendamentosHoje     |-> OrZero(agendamentosCount),
     consultasMes         |-> OrZero(consultasCount),
     taxaOcupacao         |-> MathMin(TaxaOcupacao(agendamentosCount), 100),
     limitePacientes      |-> 50,
     limiteAgendamentos   |-> 10,
     limiteConsultas      |-> 100]

\* useState<DashboardStats>({ ... })
InitialStats ==
    [pacientesCadastrados |-> 0, agendamentosHoje |-> 0, consultasMes |-> 0,
     taxaOcupacao |-> 0, limitePacientes |-> 50, limiteAgendamentos |-> 10,
     limiteConsultas |-> 100]

\* loadStats: if (!user || authLoading) return
LoadStatsSkips(u, l) == u = NULL \/ l

StatsStarted(u, l) ==
    IF LoadStatsSkips(u, l) THEN <<>>
    ELSE <<Call("loadStats", u, 0, Null, PatientsCountQuery(u), <<>>)>>

\* useEffect: if (user && !authLoading) loadStats()
StatsEffectLoads(u, l) == u # NULL /\ ~l

StatsEffectStarted(u, l) == IF StatsEffectLoads(u, l) THEN StatsStarted(u, l) ELSE <<>>

\* refreshStats(), called by the component
loadStats ==
    LET started == StatsStarted(user, authLoading) IN
    /\ "useStats" \in page.hooks
    /\ Pending({"loadStats"}) + Len(started) <= MaxPending
    /\ invoked' = {"loadStats"}
    /\ calls' = calls (+) BagOf(started)
    /\ sent' = Queries(started)
    /\ statsLoading' = IF started = <<>> THEN statsLoading ELSE TRUE
    /\ ret' = IF started = <<>> THEN Ret("loadStats", user, 0, "void", <<>>) ELSE NoRet
    /\ toasts' = <<>>
    /\ UNCHANGED <<user, authLoading, now, db, profLoading, appointments, apptLoading, stats,
                   page>>

\* the query loadStats sends after it has received the counts of acc
NextStatsQuery(uid, acc, t) ==
    IF Len(acc) = 1 THEN AppointmentsCountQuery(uid, t) ELSE ConsultationsCountQuery(uid, t)

\* loadStats after the first and the second await: const { count } = await ...;
\* the error of the answer is not read
loadStatsContinues(c, outcome) ==
    /\ c.op = "loadStats"
    /\ Len(c.acc) < 2
    /\ ret' = NoRet
    /\ toasts' = <<>>
    /\ invoked' = {}
    /\ UNCHANGED <<user, authLoading, now, db, profLoading, appointments, apptLoading,
                   stats, statsLoading, page>>
    /\ LET acc == Append(c.acc, StoreAnswer(c.query, db, outcome).count)
           q   == NextStatsQuery(c.uid, acc, now)
       IN  /\ calls' = Without(calls, c) (+) BagOf(<<Call("loadStats", c.uid, 0, Null, q, acc)>>)
           /\ sent' = <<q>>

\* loadStats after the third await: setStats({ ... }); finally setLoading(false)
loadStatsResumes(c, outcome) ==
    /\ c.op = "loadStats"
    /\ Len(c.acc) = 2
    /\ calls' = Without(calls, c)
    /\ sent' = <<>>
    /\ toasts' = <<>>
    /\ invoked' = {}
    /\ UNCHANGED <<user, authLoading, now, db, profLoading, appointments, apptLoading,
                   page>>
    /\ LET a   == StoreAnswer(c.query, db, outcome)
           acc == Append(c.acc, a.count)
       IN  /\ stats' = DashboardStats(acc[1], acc[2], acc[3])
           /\ ret' = Ret("loadStats", c.uid, 0, "void", acc)
    /\ statsLoading' = FALSE

\* an await of loadStats rejects: catch (error) { console.error(...) } finally
\* setLoading(false)
loadStatsRejected(c) ==
    /\ c.op = "loadStats"
    /\ statsLoading' = FALSE
    /\ calls' = Without(calls, c)
    /\ ret' = Ret("loadStats", c.uid, 0, "caught", c.acc)
    /\ sent' = <<>>
    /\ toasts' = <<>>
    /\ invoked' = {}
    /\ UNCHANGED <<user, authLoading, now, db, profLoading, appointments, apptLoading, stats,
                   page>>

-----------------------------------------------------------------------------
(* The auth context *)

\* the calls a hook's effect suspends, when the page uses the hook
IfMounted(hook, started) == IF hook \in page.hooks THEN started ELSE <<>>

\* the auth context publishes a new { user, loading }; the hooks render again and the
\* effects with dependencies [user, authLoading] run
SetAuth(u, l) ==
    LET today   == IfMounted("useTodayAppointments", TodayEffectStarted(u, l))
        stat    == IfMounted("useStats", StatsEffectStarted(u, l))
        started == today \o stat
        resets  == "useTodayAppointments" \in page.hooks /\ TodayEffectResets(u, l)
    IN  /\ u \in page.accounts \cup {NULL}
        /\ <<u, l>> # <<user, authLoading>>
        /\ Pending({"loadTodayAppointments"}) + Len(today) <= MaxPending
        /\ Pending({"loadStats"}) + Len(stat) <= MaxPending
        /\ user' = u
        /\ authLoading' = l
        /\ calls' = calls (+) BagOf(started)
        /\ sent' = Queries(started)
        /\ invoked' = { started[k].op : k \in 1..Len(started) }
        /\ appointments' = IF resets THEN <<>> ELSE appointments
        /\ apptLoading' = IF today # <<>> THEN TRUE
                          ELSE IF resets THEN FALSE
                          ELSE apptLoading
        /\ statsLoading' = IF stat # <<>> THEN TRUE ELSE statsLoading
        /\ ret' = NoRet
        /\ toasts' = <<>>
        /\ UNCHANGED <<now, db, profLoading, stats, page>>

----------------------------------------------------------------------------
(* Specification *)

\* a page: the hooks it uses, the accounts that sign in on it, the extra appointments
\* of its store, and the time of day 1 at which it is opened
Page(hooks, accounts, k, t) ==
    [hooks |-> hooks, accounts |-> accounts, extra |-> k, clock |-> t]

Pages ==
    {Page({"useProfessionals"}, {"u1"}, 0, Day(1, 12, 0, 0))}
    \cup {Page({"useTodayAppointments", "useStats"}, {"u1"}, 0, Day(1, 12, 0, 0))}
    \cup { Page({"useTodayAppointments"}, Users, 0, t) :
             t \in {Day(1, 0, 0, 0), Day(1, 23, 59, 59)} }
    \cup { Page({"useStats"}, {"u1"}, k, Day(1, 12, 0, 0)) : k \in 1..MaxExtra }

\* the hooks of page p as mounted under an auth context that is still resolving
InitPage(p) ==
    /\ page = [hooks |-> p.hooks, accounts |-> p.accounts]
    /\ user = NULL
    /\ authLoading = TRUE
    /\ now = p.clock
    /\ db = InitialStore(p.extra)
    /\ calls = EmptyBag
    /\ profLoading = FALSE
    /\ appointments = <<>>
    /\ apptLoading = TRUE
    /\ stats = InitialStats
    /\ statsLoading = TRUE
    /\ sent = <<>>
    /\ ret = NoRet
    /\ toasts = <<>>
    /\ invoked = {}

Init == \E p \in Pages : InitPage(p)

\* the rows callers ask for: one of each user
ProfIds == {1, 2}

Auth == \E u \in Users \cup {NULL}, l \in BOOLEAN : SetAuth(u, l)

ProfCalled ==
    \/ getProfessionals
    \/ \E id \in ProfIds : getProfessionalById(id)
    \/ \E nome \in NewNames : createProfessional(nome)
    \/ \E id \in ProfIds, nome \in NewNames : updateProfessional(id, nome)
    \/ \E id \in ProfIds : deleteProfessional(id)

Outcomes == {"ok", "fail"}

\* the store answers a query loadTodayAppointments awaits
TodayAnswered ==
    \E c \in BagToSet(calls), outcome \in Outcomes : loadTodayAppointmentsResumes(c, outcome)

\* the store answers a query loadStats awaits, or the await rejects
StatsAnswered ==
    \/ \E c \in BagToSet(calls), outcome \in Outcomes : loadStatsContinues(c, outcome)
    \/ \E c \in BagToSet(calls), outcome \in Outcomes : loadStatsResumes(c, outcome)
    \/ \E c \in BagToSet(calls) : loadStatsRejected(c)

Next ==
    \/ Auth
    \/ ProfCalled
    \/ \E c \in BagToSet(calls), outcome \in Outcomes : getProfessionalsResumes(c, outcome)
    \/ \E c \in BagToSet(calls), outcome \in Outcomes : getProfessionalByIdResumes(c, outcome)
    \/ \E c \in BagToSet(calls), outcome \in Outcomes : createProfessionalResumes(c, outcome)
    \/ \E c \in BagToSet(calls), outcome \in Outcomes : updateProfessionalResumes(c, outcome)
    \/ \E c \in BagToSet(calls), outcome \in Outcomes : deleteProfessionalResumes(c, outcome)
    \/ loadTodayAppointments
    \/ TodayAnswered
    \/ loadStats
    \/ StatsAnswered

Spec == Init /\ [][Next]_vars

\* the pages of the dashboard hooks
InitDash ==
    \E p \in Pages : p.extra = 0 /\ "useProfessionals" \notin p.hooks /\ InitPage(p)

NextDash == Auth \/ loadTodayAppointments \/ TodayAnswered \/ loadStats \/ StatsAnswered

\* the dashboard hooks over a store that answers, or rejects, every query in the end
LiveSpec ==
    InitDash /\ [][NextDash]_vars /\ WF_vars(TodayAnswered) /\ WF_vars(StatsAnswered)

----------------------------------------------------------------------------
(* Properties *)

\* the rows of table t that user uid owns
Mine(t, uid) == { r \in db[t] : r.user_id = uid }

\* C1: every operation of useProfessionals invoked while user is null returns at once,
\* getProfessionals with the empty sequence, getProfessionalById, createProfessional
\* and updateProfessional with null, deleteProfessional with false, and in that step no
\* query is sent, no call is left waiting and the store is not changed.
UnauthenticatedIsRefused ==
    [][ (user = NULL /\ invoked' \cap ProfOps # {}) =>
            /\ sent' = <<>>
            /\ calls' = calls
            /\ db' = db
            /\ invoked' = {ret'.op}
            /\ ret'.data = <<>>
            /\ ret'.kind = CASE ret'.op = "getProfessionals" -> "rows"
                              [] ret'.op = "deleteProfessional" -> "false"
                              [] OTHER -> "null" ]_vars

\* C1, witness: createProfessional has been refused after the auth context resolved to
\* no user
UnauthenticatedCreateRefused ==
    /\ user = NULL
    /\ ~authLoading
    /\ invoked = {"createProfessional"}
    /\ ret.kind = "null"
    /\ toasts # <<>>

\* a query is scoped to uid: filtered by user_id = uid or, for an insert, tagged with it
Scoped(q, uid) ==
    IF q.verb = "insert"
    THEN /\ \E k \in 1..Len(q.values) : q.values[k].col = "user_id"
         /\ \A k \in 1..Len(q.values) : q.values[k].col = "user_id" => q.values[k].val = uid
    ELSE \E k \in 1..Len(q.filters) :
            /\ q.filters[k].op = "eq"
            /\ q.filters[k].col = "user_id"
            /\ q.filters[k].val = uid

ProfessionalsChanged ==
    (db.professionals \ db'.professionals) \cup (db'.professionals \ db.professionals)

\* C2: every query an operation sends is scoped to the user who was current when the
\* operation was called, and what the operation then returns, counts, updates or
\* deletes are rows of that user only, in a store that holds rows of both users.
ScopedToCaller ==
    [][ /\ invoked' # {} => \A k \in 1..Len(sent') : Scoped(sent'[k], user')
        /\ \A c \in BagToSet(calls') : Scoped(c.query, c.uid)
        /\ \A c \in BagToSet(calls) :
              (calls' = Without(calls, c) /\ ret'.op = c.op) =>
                /\ ret'.uid = c.uid
                /\ \A r \in ProfessionalsChanged : r.user_id = c.uid
                /\ c.op \in ProfOps =>
                      \A k \in 1..Len(ret'.data) : ret'.data[k].user_id = c.uid
                /\ c.op = "loadTodayAppointments" =>
                      \A k \in 1..Len(appointments') :
                          \E r \in Mine("appointments", c.uid) : r.id = appointments'[k].id
                /\ (c.op = "loadStats" /\ ret'.kind = "void") =>
                      /\ stats'.pacientesCadastrados <= Cardinality(Mine("patients", c.uid))
                      /\ stats'.agendamentosHoje <= Cardinality(Mine("appointments", c.uid))
                      /\ stats'.consultasMes <= Cardinality(Mine("consultations", c.uid))
      ]_vars

\* C2, witness: u1 has deleted by the id of a row of u2, the store answered without
\* an error, and the row is still there
ForeignRowSurvivesDelete ==
    /\ ret.op = "deleteProfessional"
    /\ ret.kind = "true"
    /\ ret.uid = "u1"
    /\ ret.id = 2
    /\ \E r \in db.professionals : r.id = 2 /\ r.user_id = "u2"

\* C3: when authLoading goes from true to false with no user, the appointments of
\* useTodayAppointments become empty and its loading false, the loading of useStats
\* becomes false, and no query is sent.
ResolvedToNoUserResets ==
    [][ (authLoading /\ ~authLoading' /\ user' = NULL) =>
            /\ sent' = <<>>
            /\ "useTodayAppointments" \in page.hooks => appointments' = <<>> /\ ~apptLoading'
            /\ "useStats" \in page.hooks => ~statsLoading' ]_vars

\* C4: the loading flag of useProfessionals is true exactly when one of its operations
\* has started and not yet ended.  Stated of the states in which a user is signed in and
\* the auth context has resolved, where every operation started reaches its await.
LoadingMeansInFlight ==
    (user # NULL /\ ~authLoading) => (profLoading = (Pending(ProfOps) > 0))

\* C8: while authLoading is true, no operation of any hook sends a query when it is
\* invoked, whether a user is present or not.
AuthLoadingDefersAll == (authLoading /\ invoked # {}) => sent = <<>>

\* the counts a refresh of the stats received hold a null
SomeCountMissing(counts) == \E k \in 1..Len(counts) : counts[k] = <<>>

\* C5: when a store answer of a refresh of the stats is an error without a count, the
\* refresh leaves the stats as they were, raises no notification and ends with loading
\* false.
StatsStaleOnError ==
    [][ (ret'.op = "loadStats" /\ SomeCountMissing(ret'.data)) =>
            /\ stats' = stats
            /\ toasts' = <<>>
            /\ ~statsLoading' ]_vars

\* midnight of the day of the clock
Midnight == (now \div 86400) * 86400

\* the appointments of uid from today 00:00:00 up to, not including, today 23:59:59
TodayOf(uid) ==
    { r \in Mine("appointments", uid) :
        Midnight <= r.data_agendamento /\ r.data_agendamento < Midnight + 86399 }

\* C6: a refresh of the appointments that the store answers shows exactly the
\* appointments t of the caller with today 00:00:00 <= t < today 23:59:59, and the
\* count of today's appointments the stats receive is the number of those.
TodayWindowIsHalfOpen ==
    /\ (ret.op = "loadTodayAppointments" /\ ret.kind = "void" /\ ret.uid # NULL /\ invoked = {}) =>
            { appointments[k].id : k \in 1..Len(appointments) } = { r.id : r \in TodayOf(ret.uid) }
    /\ (ret.op = "loadStats" /\ ret.kind = "void" /\ Len(ret.data) = 3 /\ ret.data[2] # <<>>) =>
            /\ ret.data[2][1] = Cardinality(TodayOf(ret.uid))
            /\ stats.agendamentosHoje = Cardinality(TodayOf(ret.uid))

\* C6, witness: u1 sees the appointment of 00:00:00 (id 2) and that of 23:59:58 (id 3),
\* and neither that of 23:59:59 (id 4) nor those of the day before and the day after
BoundaryAppointmentsShown ==
    /\ ret.op = "loadTodayAppointments"
    /\ ret.kind = "void"
    /\ ret.uid = "u1"
    /\ Len(appointments) = 2
    /\ appointments[1].id = 2
    /\ appointments[2].id = 3

\* C7: the occupancy rate stored is min(100, round(n / 10 * 100)) for the count n of
\* today's appointments stored, which is the count received, or 0 when it is null; the
\* limits stored are 50, 10 and 100.
OccupancyIsClamped ==
    /\ stats.agendamentosHoje >= 0
    /\ \E r \in 0..(10 * stats.agendamentosHoje + 1) :
          /\ 10 * (2 * r - 1) <= 200 * stats.agendamentosHoje
          /\ 200 * stats.agendamentosHoje < 10 * (2 * r + 1)
          /\ stats.taxaOcupacao = IF r < 100 THEN r ELSE 100
    /\ stats.taxaOcupacao \in 0..100
    /\ stats.limitePacientes = 50
    /\ stats.limiteAgendamentos = 10
    /\ stats.limiteConsultas = 100
    /\ (ret.op = "loadStats" /\ ret.kind = "void" /\ Len(ret.data) = 3) =>
            stats.agendamentosHoje = IF ret.data[2] = <<>> THEN 0 ELSE ret.data[2][1]

\* C7, witness: with 15 appointments today the rate stored is 100
FifteenAppointmentsGiveHundred ==
    /\ ret.op = "loadStats"
    /\ stats.agendamentosHoje = 15
    /\ stats.taxaOcupacao = 100

SignedIn(u, l) == u # NULL /\ ~l

\* run is suspended for user uid once more after the step than before it
StartedFor(run, uid) ==
    \E c \in BagToSet(calls') :
        /\ c.op = run
        /\ c.uid = uid
        /\ CopiesIn(c, calls') = CopiesIn(c, calls) + 1

\* C9: when the auth context goes from no user or loading to a user and not loading,
\* each of the two dashboard hooks starts a refresh for that user in the same step,
\* and once a refresh of a hook is suspended the loading flag of the hook is false at
\* some later time.
RefreshOnSignIn ==
    /\ [][ (~SignedIn(user, authLoading) /\ SignedIn(user', authLoading')) =>
              /\ "useTodayAppointments" \in page.hooks =>
                    /\ StartedFor("loadTodayAppointments", user')
                    /\ "loadTodayAppointments" \in invoked'
                    /\ apptLoading'
              /\ "useStats" \in page.hooks =>
                    /\ StartedFor("loadStats", user')
                    /\ "loadStats" \in invoked'
                    /\ statsLoading' ]_vars
    /\ (Pending({"loadTodayAppointments"}) > 0) ~> ~apptLoading
    /\ (Pending({"loadStats"}) > 0) ~> ~statsLoading

\* C9, witness: on the dashboard both refreshes started by the sign-in of u1 have ended
BothRefreshedAfterSignIn ==
    /\ page.hooks = {"useTodayAppointments", "useStats"}
    /\ SignedIn(user, authLoading)
    /\ calls = EmptyBag
    /\ ~apptLoading
    /\ ~statsLoading
    /\ appointments # <<>>
    /\ stats.agendamentosHoje = 2

\* C10: the appointments shown are rows of the user who is present: none when no user
\* is present.  Stated of the states in which the auth context has resolved.
OnlyAppointmentsOfPresentUser ==
    ~authLoading =>
        \A k \in 1..Len(appointments) :
            \E r \in Mine("appointments", user) : r.id = appointments[k].id

====
